---- MODULE Spec2Model ----
(***************************************************************************)
(* A model of SimPEG/mesh/LogicallyOrthogonalMesh.py: the constructor of   *)
(* LogicallyOrthogonalMesh and its lazily cached read-only properties      *)
(* (gridN, gridCC, the staggered face and edge grids, vol, area, normals,  *)
(* edge, tangents).                                                        *)
(*                                                                         *)
(* Numbers.  numpy's float64 values are modelled as exact rationals        *)
(* <<num, den>> in lowest terms with den > 0.  On the inputs the           *)
(* specifications below draw (small integer coordinates) every sum,        *)
(* product, halving and quartering the code performs is exact in float64   *)
(* too, and every square root it takes is the root of a perfect square.    *)
(*                                                                         *)
(* Arrays.  An n-dimensional ndarray is a record [shape, flat] whose flat  *)
(* is the column-major (Fortran order) listing of its entries, which is    *)
(* what mkvc returns.  A two-dimensional "points" array of shape (N, dim)  *)
(* such as _gridN is the sequence of its N rows.  Index arrays hold the    *)
(* 0-based flat indices numpy uses.                                        *)
(*                                                                         *)
(* Python's None is the empty tuple; a filled cache slot is the one-tuple  *)
(* of its value.                                                           *)
(***************************************************************************)
EXTENDS Integers, Sequences, FiniteSets, TLC

\* inp:   what the constructor was given (a grid descriptor, or the Python
\*        value itself where the constructor is the operation under study)
\* mesh:  the mesh instance, None while there is none
\* err:   the exception the latest call raised, None if it returned
\* ncalc: how often each computation has been carried out on this mesh
VARIABLES inp, mesh, err, ncalc

vars == <<inp, mesh, err, ncalc>>

---------------------------------------------------------------------------
(* Exact rational arithmetic standing for float64.                         *)

Abs(x) == IF x < 0 THEN -x ELSE x

\* A sequence given by its entries, each worked out once.
Arr(f) == f \o << >>

\* F(e), with e worked out once and named.
With(e, F(_)) == CHOOSE r \in {F(v) : v \in {e}} : TRUE

RECURSIVE GCD(_, _)
GCD(a, b) == IF b = 0 THEN a ELSE GCD(b, a % b)

Rat(n, d) ==
    LET g == GCD(Abs(n), Abs(d))
        s == IF d < 0 THEN -1 ELSE 1
    IN  <<(s * n) \div g, (s * d) \div g>>

I(n) == <<n, 1>>

\* float64 division by zero yields nan/inf; the model keeps one such value.
NaN == <<0, 0>>

IsNaN(a) == a[2] = 0

RAdd(a, b) == IF IsNaN(a) \/ IsNaN(b) THEN NaN
              ELSE IF a[2] = b[2] /\ a[2] = 1 THEN <<a[1] + b[1], 1>>
              ELSE Rat(a[1] * b[2] + b[1] * a[2], a[2] * b[2])
RNeg(a) == <<-a[1], a[2]>>
RSub(a, b) == IF IsNaN(a) \/ IsNaN(b) THEN NaN ELSE RAdd(a, RNeg(b))
RMul(a, b) == IF IsNaN(a) \/ IsNaN(b) THEN NaN
              ELSE IF a[2] = 1 /\ b[2] = 1 THEN <<a[1] * b[1], 1>>
              ELSE Rat(a[1] * b[1], a[2] * b[2])
RDiv(a, b) == IF IsNaN(a) \/ IsNaN(b) \/ b[1] = 0 THEN NaN
              ELSE Rat(a[1] * b[2], a[2] * b[1])
RAbs(a) == <<Abs(a[1]), a[2]>>

\* Largest r with r*r <= n, by bisection on lo..hi.
RECURSIVE ISqrtIn(_, _, _)
ISqrtIn(n, lo, hi) ==
    IF lo >= hi THEN lo
    ELSE LET mid == (lo + hi + 1) \div 2
         IN  IF mid * mid <= n THEN ISqrtIn(n, mid, hi)
             ELSE ISqrtIn(n, lo, mid - 1)

\* (no root of a number the model holds is above 46340)
ISqrt(n) == ISqrtIn(n, 0, IF n < 46340 THEN n ELSE 46340)

\* x ** 0.5: exact on a ratio of perfect squares, else rounded down to 1/1000.
RSqrt(a) ==
    IF IsNaN(a) THEN NaN
    ELSE LET rn == ISqrt(a[1])
             rd == ISqrt(a[2])
         IN  IF rn * rn = a[1] /\ rd * rd = a[2] THEN Rat(rn, rd)
             ELSE Rat(ISqrt((a[1] * 1000000) \div a[2]), 1000)

RECURSIVE RSum(_)
RSum(s) == IF s = << >> THEN I(0) ELSE RAdd(Head(s), RSum(Tail(s)))

---------------------------------------------------------------------------
(* numpy arrays.                                                           *)

RECURSIVE Prod(_)
Prod(s) == IF s = << >> THEN 1 ELSE Head(s) * Prod(Tail(s))

\* Column-major flat index (0-based) of an index tuple, and back.
Ravel(idx, shape) ==
    idx[1] + (IF Len(shape) >= 2 THEN shape[1] * idx[2] ELSE 0)
           + (IF Len(shape) >= 3 THEN shape[1] * shape[2] * idx[3] ELSE 0)
           + (IF Len(shape) >= 4 THEN shape[1] * shape[2] * shape[3] * idx[4] ELSE 0)

Unravel(t, shape) ==
    Arr([a \in 1..Len(shape) |-> (t \div Prod(SubSeq(shape, 1, a - 1))) % shape[a]])

\* n[s1, s2(, s3)] with each s one of ":", ":-1", "1:".
Slice(T, sl) ==
    LET shape == Arr([a \in 1..Len(T.shape) |->
                     IF sl[a] = ":" THEN T.shape[a] ELSE T.shape[a] - 1])
        off == Arr([a \in 1..Len(T.shape) |-> IF sl[a] = "1:" THEN 1 ELSE 0])
    IN  [shape |-> shape,
         flat |-> Arr([t \in 1..Prod(shape) |->
                     LET idx == Unravel(t - 1, shape)
                     IN  T.flat[Ravel(Arr([a \in 1..Len(shape) |-> idx[a] + off[a]]),
                                      T.shape) + 1]])]

\* Elementwise sum of arrays of one shape, and a scalar multiple.
TAdd(A, B) == [shape |-> A.shape,
               flat |-> Arr([t \in 1..Len(A.flat) |-> RAdd(A.flat[t], B.flat[t])])]
TScale(c, A) == [shape |-> A.shape,
                 flat |-> Arr([t \in 1..Len(A.flat) |-> RMul(c, A.flat[t])])]

\* np.c_[v1, v2(, v3)]: the vectors as the columns of a points array.
c_(cols) == Arr([t \in 1..Len(cols[1]) |-> Arr([c \in 1..Len(cols) |-> cols[c][t]])])

\* x[:, c] of a points array.
Col(x, c) == Arr([t \in 1..Len(x) |-> x[t][c]])

\* x[A, :] for an index array A.
Take(x, A) == Arr([t \in 1..Len(A) |-> x[A[t] + 1]])

\* Row-wise difference, sum and scalar division of points arrays.
PSub(x, y) == Arr([t \in 1..Len(x) |-> Arr([c \in 1..Len(x[t]) |-> RSub(x[t][c], y[t][c])])])
PAdd(x, y) == Arr([t \in 1..Len(x) |-> Arr([c \in 1..Len(x[t]) |-> RAdd(x[t][c], y[t][c])])])
PDivRows(x, v) == Arr([t \in 1..Len(x) |-> Arr([c \in 1..Len(x[t]) |-> RDiv(x[t][c], v[t])])])
PDivScalar(x, k) == Arr([t \in 1..Len(x) |-> Arr([c \in 1..Len(x[t]) |-> RDiv(x[t][c], I(k))])])
VAdd(u, v) == Arr([t \in 1..Len(u) |-> RAdd(u[t], v[t])])
VDivScalar(u, k) == Arr([t \in 1..Len(u) |-> RDiv(u[t], I(k))])

None == << >>
Some(v) == <<v>>
Val(x) == x[1]

---------------------------------------------------------------------------
(* SimPEG.utils, as the mesh uses them.                                    *)

\* mkvc of an ndarray: its entries in column-major order.
mkvc(x) == x.flat

\* mkvc of a points array of shape (N, dim): column after column.
mkvcPoints(x) ==
    Arr([t \in 1..(Len(x) * Len(x[1])) |->
        x[((t - 1) % Len(x)) + 1][((t - 1) \div Len(x)) + 1]])

\* ndgrid(h1, h2(, h3), vector=False): one array per axis, of shape
\* (len h1, len h2(, len h3)), the a-th holding h_a[index along axis a].
ndgrid(hs) ==
    LET shape == Arr([a \in 1..Len(hs) |-> Len(hs[a])])
    IN  Arr([a \in 1..Len(hs) |->
            [type |-> "ndarray", shape |-> shape,
             flat |-> Arr([t \in 1..Prod(shape) |->
                         hs[a][Unravel(t - 1, shape)[a] + 1]])]])

\* The displacement of each corner letter along the logical axes.
nodeMap ==
    [l \in {"A", "B", "C", "D", "E", "F", "G", "H"} |->
        CASE l = "A" -> <<0, 0, 0>> [] l = "B" -> <<0, 1, 0>>
          [] l = "C" -> <<1, 1, 0>> [] l = "D" -> <<1, 0, 0>>
          [] l = "E" -> <<0, 0, 1>> [] l = "F" -> <<0, 1, 1>>
          [] l = "G" -> <<1, 1, 1>> [] l = "H" -> <<1, 0, 1>>]

\* indexCube(nodes, gridSize, n): for each letter of nodes, the flat index
\* into the node grid of that corner of every base point of the lattice n
\* (the cells, when n is None), base points in column-major order.
indexCube(nodes, gridSize, n) ==
    LET nn == IF n = None THEN Arr([a \in 1..Len(gridSize) |-> gridSize[a] - 1]) ELSE n
    IN  Arr([l \in 1..Len(nodes) |->
            Arr([t \in 1..Prod(nn) |->
                LET ijk == Unravel(t - 1, nn)
                IN  Ravel(Arr([a \in 1..Len(nn) |-> ijk[a] + nodeMap[nodes[l]][a]]),
                          gridSize)])])

cross(X, Y) ==
    Arr([t \in 1..Len(X) |->
        <<RSub(RMul(X[t][2], Y[t][3]), RMul(X[t][3], Y[t][2])),
          RSub(RMul(X[t][3], Y[t][1]), RMul(X[t][1], Y[t][3])),
          RSub(RMul(X[t][1], Y[t][2]), RMul(X[t][2], Y[t][1]))>>])

length2D(x) ==
    Arr([t \in 1..Len(x) |-> RSqrt(RAdd(RMul(x[t][1], x[t][1]), RMul(x[t][2], x[t][2])))])

length3D(x) ==
    Arr([t \in 1..Len(x) |->
        RSqrt(RAdd(RAdd(RMul(x[t][1], x[t][1]), RMul(x[t][2], x[t][2])),
                   RMul(x[t][3], x[t][3])))])

normalize2D(x) == PDivRows(x, length2D(x))

normalize3D(x) == PDivRows(x, length3D(x))

\* faceInfo(xyz, A, B, C, D, average, normalizeNormals): the area of each
\* quadrilateral ABCD, half the magnitude of the cross product of its
\* diagonals (C - A) x (D - B), and its normals: one cross product of the
\* two edges at each corner, oriented like the diagonals' cross product,
\* either collapsed to their normalized average or kept as the four.
faceInfo(xyz, A, B, C, D, average, normalizeNormals) ==
    LET pA == Take(xyz, A)
        pB == Take(xyz, B)
        pC == Take(xyz, C)
        pD == Take(xyz, D)
        nA == cross(PSub(pB, pA), PSub(pD, pA))
        nB == cross(PSub(pC, pB), PSub(pA, pB))
        nC == cross(PSub(pD, pC), PSub(pB, pC))
        nD == cross(PSub(pA, pD), PSub(pC, pD))
        diag == cross(PSub(pC, pA), PSub(pD, pB))
        len == length3D(diag)
    IN  [N |-> IF average
               THEN normalize3D(PDivScalar(PAdd(PAdd(PAdd(nA, nB), nC), nD), 4))
               ELSE IF normalizeNormals
                    THEN <<normalize3D(nA), normalize3D(nB),
                           normalize3D(nC), normalize3D(nD)>>
                    ELSE <<nA, nB, nC, nD>>,
         area |-> Arr([t \in 1..Len(len) |-> RDiv(len[t], I(2))])]

\* volTetra(xyz, A, B, C, D): |det [B - A, C - A, D - A]| / 6 per tetrahedron.
volTetra(xyz, A, B, C, D) ==
    LET u == PSub(Take(xyz, B), Take(xyz, A))
        v == PSub(Take(xyz, C), Take(xyz, A))
        w == PSub(Take(xyz, D), Take(xyz, A))
        vxw == cross(v, w)
    IN  Arr([t \in 1..Len(u) |->
            RDiv(RAbs(RAdd(RAdd(RMul(u[t][1], vxw[t][1]), RMul(u[t][2], vxw[t][2])),
                           RMul(u[t][3], vxw[t][3]))), I(6))])

---------------------------------------------------------------------------
(* BaseMesh: the counting.                                                 *)

dim(self) == Len(self.n)
nCx(self) == self.n[1]
nCy(self) == self.n[2]
nCz(self) == self.n[3]
nNx(self) == self.n[1] + 1
nNy(self) == self.n[2] + 1
nNz(self) == self.n[3] + 1
nC(self) == Prod(self.n)
nNv(self) == Arr([a \in 1..Len(self.n) |-> self.n[a] + 1])
nN(self) == Prod(nNv(self))

\* BaseMesh.__init__(n, x0): records the cell counts.
BaseMesh_init(n) == [n |-> n]

\* self.r(x, 'N', 'N', 'M'): each column of a nodal points array as an array
\* over the node lattice (column-major).
r_N_M(self, x) ==
    Arr([c \in 1..Len(x[1]) |-> [shape |-> nNv(self), flat |-> Col(x, c)]])

\* self.aveN2CCv * v: per coordinate, the average over each cell's 2^dim
\* corner nodes, cells in column-major order.
aveN2CCv_mul(self, v) ==
    LET corners == IF dim(self) = 2 THEN <<"A", "B", "C", "D">>
                   ELSE <<"A", "B", "C", "D", "E", "F", "G", "H">>
        ix == indexCube(corners, nNv(self), None)
        nc == nC(self)
    IN  Arr([t \in 1..(dim(self) * nc) |->
            LET c == (t - 1) \div nc
                cell == ((t - 1) % nc) + 1
            IN  RDiv(RSum(Arr([l \in 1..Len(corners) |->
                              v[c * nN(self) + ix[l][cell] + 1]])),
                     I(Len(corners)))])

\* ccV.reshape((-1, dim), order='F')
reshapeF(v, d) ==
    LET rows == Len(v) \div d
    IN  Arr([t \in 1..rows |-> Arr([c \in 1..d |-> v[(c - 1) * rows + t]])])

---------------------------------------------------------------------------
(* LogicallyOrthogonalMesh.__init__                                        *)

\* The class-level defaults of the cache slots (_gridCC = None, ...), which
\* an instance shows until it assigns its own.
ClassDefaults ==
    [_gridN |-> None, _gridCC |-> None,
     _gridFx |-> None, _gridFy |-> None, _gridFz |-> None,
     _gridEx |-> None, _gridEy |-> None, _gridEz |-> None,
     _vol |-> None, _area |-> None, _normals |-> None,
     _edge |-> None, _tangents |-> None]

Failed(msg) == [ok |-> FALSE, err |-> msg]

\* The constructor without the assertion of line 31 (a fault the constructor
\* contract must detect): arrays of unequal shape get as far as the column
\* assignment, which numpy refuses only when the sizes differ.
__init__NoShapeCheck(nodes) ==
    IF nodes.type # "list"
    THEN Failed("'nodes' variable must be a list of np.ndarray")
    ELSE
    LET items == nodes.items
        bad == {i \in 1..Len(items) : items[i].type # "ndarray"}
    IN  IF bad # {}
        THEN Failed("nodes[i] is not a numpy array.")
        ELSE IF items = << >>
        THEN Failed("IndexError: list index out of range")
        ELSE IF Len(items[1].shape) # Len(items)
        THEN Failed("Dimension mismatch")
        ELSE IF ~(Len(items[1].shape) > 1)
        THEN Failed("Not worth using LOM for a 1D mesh.")
        ELSE IF \E i \in 1..Len(items) : Prod(items[i].shape) # Prod(items[1].shape)
        THEN Failed("ValueError: could not broadcast input array")
        ELSE LET base == BaseMesh_init(Arr([a \in 1..Len(items[1].shape) |->
                                           items[1].shape[a] - 1]))
                            @@ ClassDefaults
                 gridN == Arr([t \in 1..Prod(items[1].shape) |->
                              Arr([i \in 1..Len(items) |-> mkvc(items[i])[t]])])
             IN  [ok |-> TRUE, self |-> [base EXCEPT !._gridN = Some(gridN)]]

__init__(nodes) ==
    IF nodes.type # "list"
    THEN Failed("'nodes' variable must be a list of np.ndarray")
    ELSE
    LET items == nodes.items
        \* the first pass of the for loop in which an assertion fails
        bad == {i \in 1..Len(items) :
                   \/ items[i].type # "ndarray"
                   \/ items[1].type # "ndarray"
                   \/ items[i].shape # items[1].shape}
        first == CHOOSE i \in bad : \A j \in bad : i <= j
    IN  IF bad # {}
        THEN IF items[first].type # "ndarray"
             THEN Failed("nodes[i] is not a numpy array.")
             ELSE Failed("nodes[i] is not the same shape as nodes[0]")
        ELSE IF items = << >>
        THEN Failed("IndexError: list index out of range")
        ELSE IF Len(items[1].shape) # Len(items)
        THEN Failed("Dimension mismatch")
        ELSE IF ~(Len(items[1].shape) > 1)
        THEN Failed("Not worth using LOM for a 1D mesh.")
        ELSE LET base == BaseMesh_init(Arr([a \in 1..Len(items[1].shape) |->
                                           items[1].shape[a] - 1]))
                            @@ ClassDefaults
                 \* _gridN[:, i] = mkvc(node_i)
                 gridN == Arr([t \in 1..Prod(items[1].shape) |->
                              Arr([i \in 1..Len(items) |-> mkvc(items[i])[t]])])
             IN  [ok |-> TRUE, self |-> [base EXCEPT !._gridN = Some(gridN)]]

---------------------------------------------------------------------------
(* The property getters.  Each takes the mesh and yields the mesh after    *)
(* the read, what the read gave back (a returned value or a raised         *)
(* exception), and calc, the set of computations the read carried out      *)
(* (named after the cache slot they fill; "normals" is the averaging and   *)
(* normalizing pass of the normals getter).                                *)

Return(self, value, calc) ==
    [self |-> self, out |-> <<"return", value>>, calc |-> calc]

Raise(self, msg) == [self |-> self, out |-> <<"raise", msg>>, calc |-> {}]

Raised(res) == res.out[1] = "raise"

half == <<1, 2>>
quarter == <<1, 4>>

\* [mkvc(w * (n[s1] + n[s2] + ...)) for n in N], put side by side by np.c_.
Staggered(N, w, slices) ==
    LET sum(n) == IF Len(slices) = 2
                  THEN TAdd(Slice(n, slices[1]), Slice(n, slices[2]))
                  ELSE TAdd(TAdd(TAdd(Slice(n, slices[1]), Slice(n, slices[2])),
                                 Slice(n, slices[3])), Slice(n, slices[4]))
    IN  c_(Arr([c \in 1..Len(N) |-> mkvc(TScale(w, sum(N[c])))]))

gridN_fget(self) ==
    IF self._gridN = None
    THEN Raise(self, "Someone deleted this. I blame you.")
    ELSE Return(self, self._gridN, {})

\* The gridCC getter with a test of the node grid added to that of its
\* slot: without nodes it gives back the empty slot (a fault the signalling
\* of cleared nodes must detect).
gridCC_fgetSilent(self) ==
    IF self._gridCC = None /\ self._gridN # None
    THEN With([self EXCEPT !._gridCC =
                 Some(reshapeF(aveN2CCv_mul(self, mkvcPoints(Val(gridN_fget(self).out[2]))),
                               dim(self)))],
              LAMBDA new : Return(new, new._gridCC, {"gridCC"}))
    ELSE Return(self, self._gridCC, {})

gridCC_fget(self) ==
    IF self._gridCC = None
    THEN IF Raised(gridN_fget(self)) THEN gridN_fget(self)
         ELSE With([self EXCEPT !._gridCC =
                      Some(reshapeF(aveN2CCv_mul(self, mkvcPoints(Val(gridN_fget(self).out[2]))),
                                    dim(self)))],
                   LAMBDA new : Return(new, new._gridCC, {"gridCC"}))
    ELSE Return(self, self._gridCC, {})

\* The gridFx getter with a copied line left unrenamed: it stores its result
\* in _gridFy (a fault that idempotence of the reads must detect).
gridFx_fgetWrongSlot(self) ==
    IF self._gridFx = None
    THEN IF Raised(gridN_fget(self)) THEN gridN_fget(self)
         ELSE With(r_N_M(self, Val(gridN_fget(self).out[2])), LAMBDA N :
              With(IF dim(self) = 2
                   THEN [self EXCEPT !._gridFy = Some(Staggered(N, half,
                            <<<<":", ":-1">>, <<":", "1:">>>>))]
                   ELSE IF dim(self) = 3
                   THEN [self EXCEPT !._gridFy = Some(Staggered(N, quarter,
                            <<<<":", ":-1", ":-1">>, <<":", ":-1", "1:">>,
                              <<":", "1:", ":-1">>, <<":", "1:", "1:">>>>))]
                   ELSE self,
                   LAMBDA new : Return(new, new._gridFx, {"gridFx"})))
    ELSE Return(self, self._gridFx, {})

gridFx_fget(self) ==
    IF self._gridFx = None
    THEN IF Raised(gridN_fget(self)) THEN gridN_fget(self)
         ELSE With(r_N_M(self, Val(gridN_fget(self).out[2])), LAMBDA N :
              With(IF dim(self) = 2
                   THEN [self EXCEPT !._gridFx = Some(Staggered(N, half,
                            <<<<":", ":-1">>, <<":", "1:">>>>))]
                   ELSE IF dim(self) = 3
                   THEN [self EXCEPT !._gridFx = Some(Staggered(N, quarter,
                            <<<<":", ":-1", ":-1">>, <<":", ":-1", "1:">>,
                              <<":", "1:", ":-1">>, <<":", "1:", "1:">>>>))]
                   ELSE self,
                   LAMBDA new : Return(new, new._gridFx, {"gridFx"})))
    ELSE Return(self, self._gridFx, {})

gridFy_fget(self) ==
    IF self._gridFy = None
    THEN IF Raised(gridN_fget(self)) THEN gridN_fget(self)
         ELSE With(r_N_M(self, Val(gridN_fget(self).out[2])), LAMBDA N :
              With(IF dim(self) = 2
                   THEN [self EXCEPT !._gridFy = Some(Staggered(N, half,
                            <<<<":-1", ":">>, <<"1:", ":">>>>))]
                   ELSE IF dim(self) = 3
                   THEN [self EXCEPT !._gridFy = Some(Staggered(N, quarter,
                            <<<<":-1", ":", ":-1">>, <<":-1", ":", "1:">>,
                              <<"1:", ":", ":-1">>, <<"1:", ":", "1:">>>>))]
                   ELSE self,
                   LAMBDA new : Return(new, new._gridFy, {"gridFy"})))
    ELSE Return(self, self._gridFy, {})

gridFz_fget(self) ==
    IF self._gridFz = None /\ dim(self) = 3
    THEN IF Raised(gridN_fget(self)) THEN gridN_fget(self)
         ELSE With(r_N_M(self, Val(gridN_fget(self).out[2])), LAMBDA N :
              With([self EXCEPT !._gridFz = Some(Staggered(N, quarter,
                            <<<<":-1", ":-1", ":">>, <<":-1", "1:", ":">>,
                              <<"1:", ":-1", ":">>, <<"1:", "1:", ":">>>>))],
                   LAMBDA new : Return(new, new._gridFz, {"gridFz"})))
    ELSE Return(self, self._gridFz, {})

\* The gridEx getter averaging along the second axis, as gridEy does (a
\* fault the duality of edge and face grids must detect).
gridEx_fgetOtherStencil(self) ==
    IF self._gridEx = None
    THEN IF Raised(gridN_fget(self)) THEN gridN_fget(self)
         ELSE With(r_N_M(self, Val(gridN_fget(self).out[2])), LAMBDA N :
              With(IF dim(self) = 2
                   THEN [self EXCEPT !._gridEx = Some(Staggered(N, half,
                            <<<<":", ":-1">>, <<":", "1:">>>>))]
                   ELSE IF dim(self) = 3
                   THEN [self EXCEPT !._gridEx = Some(Staggered(N, half,
                            <<<<":", ":-1", ":">>, <<":", "1:", ":">>>>))]
                   ELSE self,
                   LAMBDA new : Return(new, new._gridEx, {"gridEx"})))
    ELSE Return(self, self._gridEx, {})

gridEx_fget(self) ==
    IF self._gridEx = None
    THEN IF Raised(gridN_fget(self)) THEN gridN_fget(self)
         ELSE With(r_N_M(self, Val(gridN_fget(self).out[2])), LAMBDA N :
              With(IF dim(self) = 2
                   THEN [self EXCEPT !._gridEx = Some(Staggered(N, half,
                            <<<<":-1", ":">>, <<"1:", ":">>>>))]
                   ELSE IF dim(self) = 3
                   THEN [self EXCEPT !._gridEx = Some(Staggered(N, half,
                            <<<<":-1", ":", ":">>, <<"1:", ":", ":">>>>))]
                   ELSE self,
                   LAMBDA new : Return(new, new._gridEx, {"gridEx"})))
    ELSE Return(self, self._gridEx, {})

gridEy_fget(self) ==
    IF self._gridEy = None
    THEN IF Raised(gridN_fget(self)) THEN gridN_fget(self)
         ELSE With(r_N_M(self, Val(gridN_fget(self).out[2])), LAMBDA N :
              With(IF dim(self) = 2
                   THEN [self EXCEPT !._gridEy = Some(Staggered(N, half,
                            <<<<":", ":-1">>, <<":", "1:">>>>))]
                   ELSE IF dim(self) = 3
                   THEN [self EXCEPT !._gridEy = Some(Staggered(N, half,
                            <<<<":", ":-1", ":">>, <<":", "1:", ":">>>>))]
                   ELSE self,
                   LAMBDA new : Return(new, new._gridEy, {"gridEy"})))
    ELSE Return(self, self._gridEy, {})

gridEz_fget(self) ==
    IF self._gridEz = None /\ dim(self) = 3
    THEN IF Raised(gridN_fget(self)) THEN gridN_fget(self)
         ELSE With(r_N_M(self, Val(gridN_fget(self).out[2])), LAMBDA N :
              With([self EXCEPT !._gridEz = Some(Staggered(N, half,
                            <<<<":", ":", ":-1">>, <<":", ":", "1:">>>>))],
                   LAMBDA new : Return(new, new._gridEz, {"gridEz"})))
    ELSE Return(self, self._gridEz, {})

---------------------------------------------------------------------------
(* Geometries.                                                             *)

\* np.c_[self.gridN, np.zeros((self.nN, 1))]
withZeroColumn(x) == Arr([t \in 1..Len(x) |-> Append(x[t], I(0))])

\* 2D: the area of each cell's quadrilateral ABCD.
vol2D(self, gridN) ==
    With(indexCube(<<"A", "B", "C", "D">>, nNv(self), None), LAMBDA ix :
         faceInfo(withZeroColumn(gridN), ix[1], ix[2], ix[3], ix[4], TRUE, TRUE).area)

\* The corners (as positions in "ABCDEFGH") of the five tetrahedra of the
\* first and of the second way to cut a cell.
tetra1 == <<<<1, 2, 4, 5>>, <<2, 5, 6, 7>>, <<2, 4, 5, 7>>, <<2, 3, 4, 7>>, <<4, 5, 7, 8>>>>
tetra2 == <<<<1, 6, 2, 3>>, <<1, 5, 6, 8>>, <<1, 8, 6, 3>>, <<3, 8, 4, 1>>, <<3, 7, 8, 6>>>>

\* vol3D without the halving of line 216 (a fault the volumes of unit
\* cells must detect).
vol3DSum(self, gridN) ==
    With(indexCube(<<"A", "B", "C", "D", "E", "F", "G", "H">>, nNv(self), None),
         LAMBDA ix :
         With(Arr([k \in 1..10 |->
                     LET T == IF k <= 5 THEN tetra1[k] ELSE tetra2[k - 5]
                     IN  volTetra(gridN, ix[T[1]], ix[T[2]], ix[T[3]], ix[T[4]])]),
              LAMBDA v :
              LET vol1 == VAdd(VAdd(VAdd(VAdd(v[1], v[2]), v[3]), v[4]), v[5])
                  vol2 == VAdd(VAdd(VAdd(VAdd(v[6], v[7]), v[8]), v[9]), v[10])
              IN  VAdd(vol1, vol2)))

\* 3D: each cell cut into five tetrahedra in two ways, the two sums averaged.
vol3D(self, gridN) ==
    With(indexCube(<<"A", "B", "C", "D", "E", "F", "G", "H">>, nNv(self), None),
         LAMBDA ix :
         With(Arr([k \in 1..10 |->
                     LET T == IF k <= 5 THEN tetra1[k] ELSE tetra2[k - 5]
                     IN  volTetra(gridN, ix[T[1]], ix[T[2]], ix[T[3]], ix[T[4]])]),
              LAMBDA v :
              LET vol1 == VAdd(VAdd(VAdd(VAdd(v[1], v[2]), v[3]), v[4]), v[5])
                  vol2 == VAdd(VAdd(VAdd(VAdd(v[6], v[7]), v[8]), v[9]), v[10])
              IN  VDivScalar(VAdd(vol1, vol2), 2)))

\* The vol getter with a 2D branch that keeps faceInfo's result as the face
\* areas too (a fault the frame of the reads must detect).
vol_fgetFillsArea(self) ==
    IF self._vol = None
    THEN IF Raised(gridN_fget(self)) THEN gridN_fget(self)
         ELSE With(IF dim(self) = 2
                   THEN With(vol2D(self, Val(gridN_fget(self).out[2])), LAMBDA a :
                             [self EXCEPT !._vol = Some(a), !._area = Some(a)])
                   ELSE IF dim(self) = 3
                   THEN [self EXCEPT !._vol = Some(vol3D(self, Val(gridN_fget(self).out[2])))]
                   ELSE self,
                   LAMBDA new : Return(new, new._vol, {"vol"}))
    ELSE Return(self, self._vol, {})

vol_fget(self) ==
    IF self._vol = None
    THEN IF Raised(gridN_fget(self)) THEN gridN_fget(self)
         ELSE With(IF dim(self) = 2
                   THEN [self EXCEPT !._vol = Some(vol2D(self, Val(gridN_fget(self).out[2])))]
                   ELSE IF dim(self) = 3
                   THEN [self EXCEPT !._vol = Some(vol3D(self, Val(gridN_fget(self).out[2])))]
                   ELSE self,
                   LAMBDA new : Return(new, new._vol, {"vol"}))
    ELSE Return(self, self._vol, {})

\* (dy, -dx) of each edge vector
rot90(edge) == Arr([t \in 1..Len(edge) |-> <<edge[t][2], RNeg(edge[t][1])>>])

\* area2D with the two families put together in the other order (a fault
\* the canonical order of the faces must detect).
area2DSwapped(self, xy) ==
    With(indexCube(<<"A", "B">>, nNv(self), <<nNx(self), nCy(self)>>), LAMBDA ab :
    With(indexCube(<<"A", "D">>, nNv(self), <<nCx(self), nNy(self)>>), LAMBDA ad :
    With(PSub(Take(xy, ab[2]), Take(xy, ab[1])), LAMBDA edge1 :
    With(PSub(Take(xy, ad[1]), Take(xy, ad[2])), LAMBDA edge2 :
         LET normal1 == rot90(edge1)
             area1 == length2D(edge1)
             normal2 == rot90(edge2)
             area2 == length2D(edge2)
         IN  [area |-> area2 \o area1,
              normals |-> <<normalize2D(normal2), normalize2D(normal1)>>]))))

\* 2D: the faces are the segments AB over the lattice (nNx, nCy) and AD over
\* (nCx, nNy); yields the pair stored in _area and _normals.
area2D(self, xy) ==
    With(indexCube(<<"A", "B">>, nNv(self), <<nNx(self), nCy(self)>>), LAMBDA ab :
    With(indexCube(<<"A", "D">>, nNv(self), <<nCx(self), nNy(self)>>), LAMBDA ad :
    With(PSub(Take(xy, ab[2]), Take(xy, ab[1])), LAMBDA edge1 :
    With(PSub(Take(xy, ad[1]), Take(xy, ad[2])), LAMBDA edge2 :
         LET normal1 == rot90(edge1)
             area1 == length2D(edge1)
             normal2 == rot90(edge2)
             area2 == length2D(edge2)
         IN  [area |-> area1 \o area2,
              normals |-> <<normalize2D(normal1), normalize2D(normal2)>>]))))

\* The corners of the three face families and the lattice each runs over.
faces3D(self) ==
    <<[c |-> <<"A", "E", "F", "B">>, n |-> <<nNx(self), nCy(self), nCz(self)>>],
      [c |-> <<"A", "D", "H", "E">>, n |-> <<nCx(self), nNy(self), nCz(self)>>],
      [c |-> <<"A", "B", "C", "D">>, n |-> <<nCx(self), nCy(self), nNz(self)>>]>>

\* 3D: the faces AEFB over (nNx, nCy, nCz), ADHE over (nCx, nNy, nCz) and
\* ABCD over (nCx, nCy, nNz), each with its four raw corner normals.
area3D(self, gridN) ==
    With(Arr([k \in 1..3 |->
                With(indexCube(faces3D(self)[k].c, nNv(self), faces3D(self)[k].n),
                     LAMBDA ix :
                     faceInfo(gridN, ix[1], ix[2], ix[3], ix[4], FALSE, FALSE))]),
         LAMBDA f :
         [area |-> f[1].area \o f[2].area \o f[3].area,
          normals |-> <<f[1].N, f[2].N, f[3].N>>])

\* The area getter without line 241/254: the normals are not kept (a fault
\* the joint caching of the pair must detect).
area_fgetAreaOnly(self) ==
    IF self._area = None \/ self._normals = None
    THEN IF Raised(gridN_fget(self)) THEN gridN_fget(self)
         ELSE With(IF dim(self) = 2 THEN area2D(self, Val(gridN_fget(self).out[2]))
                   ELSE area3D(self, Val(gridN_fget(self).out[2])),
                   LAMBDA an :
              With(IF dim(self) \in {2, 3}
                   THEN [self EXCEPT !._area = Some(an.area)]
                   ELSE self,
                   LAMBDA new : Return(new, new._area, {"area"})))
    ELSE Return(self, self._area, {})

area_fget(self) ==
    IF self._area = None \/ self._normals = None
    THEN IF Raised(gridN_fget(self)) THEN gridN_fget(self)
         ELSE With(IF dim(self) = 2 THEN area2D(self, Val(gridN_fget(self).out[2]))
                   ELSE area3D(self, Val(gridN_fget(self).out[2])),
                   LAMBDA an :
              With(IF dim(self) \in {2, 3}
                   THEN [self EXCEPT !._area = Some(an.area),
                                     !._normals = Some(an.normals)]
                   ELSE self,
                   LAMBDA new : Return(new, new._area, {"area"})))
    ELSE Return(self, self._area, {})

\* The value of the normals getter without its normalizing pass (a fault
\* the unit normals of axis-aligned faces must detect).
averagedNormalsRaw(self) ==
    IF dim(self) = 2
    THEN Some(Val(self._normals)[1] \o Val(self._normals)[2])
    ELSE IF dim(self) = 3
    THEN With(Arr([k \in 1..3 |->
                     With(Val(self._normals)[k], LAMBDA n :
                          PDivScalar(PAdd(PAdd(PAdd(n[1], n[2]), n[3]), n[4]), 4))]),
              LAMBDA avg : Some(avg[1] \o avg[2] \o avg[3]))
    ELSE None

\* The value the normals getter builds from the stored raw normals: one
\* unit normal per face, x faces, then y faces, then z faces.
averagedNormals(self) ==
    IF dim(self) = 2
    THEN Some(normalize2D(Val(self._normals)[1] \o Val(self._normals)[2]))
    ELSE IF dim(self) = 3
    THEN With(Arr([k \in 1..3 |->
                     With(Val(self._normals)[k], LAMBDA n :
                          PDivScalar(PAdd(PAdd(PAdd(n[1], n[2]), n[3]), n[4]), 4))]),
              LAMBDA avg : Some(normalize3D(avg[1] \o avg[2] \o avg[3])))
    ELSE None

normals_fget(self) ==
    With(IF self._normals = None THEN area_fget(self) ELSE Return(self, None, {}),
         LAMBDA a :
         IF Raised(a) THEN a
         ELSE IF a.self._normals = None /\ dim(self) \in {2, 3}
         THEN Raise(a.self, "TypeError: 'NoneType' object has no attribute '__getitem__'")
         ELSE Return(a.self, averagedNormals(a.self), a.calc \cup {"normals"}))

\* 2D: the edges AD over (nCx, nNy), then AB over (nNx, nCy).
edge2D(self, xy) ==
    With(indexCube(<<"A", "D">>, nNv(self), <<nCx(self), nNy(self)>>), LAMBDA ad :
    With(indexCube(<<"A", "B">>, nNv(self), <<nNx(self), nCy(self)>>), LAMBDA ab :
    With(PSub(Take(xy, ad[2]), Take(xy, ad[1])), LAMBDA edge1 :
    With(PSub(Take(xy, ab[2]), Take(xy, ab[1])), LAMBDA edge2 :
    With(length2D(edge1) \o length2D(edge2), LAMBDA len :
         [edge |-> len, tangents |-> PDivRows(edge1 \o edge2, len)])))))

\* 3D: the edges AD, then AB, then AE.
edge3D(self, xyz) ==
    With(indexCube(<<"A", "D">>, nNv(self), <<nCx(self), nNy(self), nNz(self)>>),
         LAMBDA ad :
    With(indexCube(<<"A", "B">>, nNv(self), <<nNx(self), nCy(self), nNz(self)>>),
         LAMBDA ab :
    With(indexCube(<<"A", "E">>, nNv(self), <<nNx(self), nNy(self), nCz(self)>>),
         LAMBDA ae :
    With(PSub(Take(xyz, ad[2]), Take(xyz, ad[1]))
            \o PSub(Take(xyz, ab[2]), Take(xyz, ab[1]))
            \o PSub(Take(xyz, ae[2]), Take(xyz, ae[1])), LAMBDA edges :
    With(length3D(edges), LAMBDA len :
         [edge |-> len, tangents |-> PDivRows(edges, len)])))))

\* The edge getter without the test of line 290: it computes on every read
\* (a fault that computing at most once must detect).
edge_fgetUncached(self) ==
    IF Raised(gridN_fget(self)) THEN gridN_fget(self)
    ELSE With(IF dim(self) = 2 THEN edge2D(self, Val(gridN_fget(self).out[2]))
              ELSE edge3D(self, Val(gridN_fget(self).out[2])),
              LAMBDA et :
         With(IF dim(self) \in {2, 3}
              THEN [self EXCEPT !._edge = Some(et.edge),
                                !._tangents = Some(et.tangents)]
              ELSE self,
              LAMBDA new : Return(new, new._edge, {"edge"})))

edge_fget(self) ==
    IF self._edge = None \/ self._tangents = None
    THEN IF Raised(gridN_fget(self)) THEN gridN_fget(self)
         ELSE With(IF dim(self) = 2 THEN edge2D(self, Val(gridN_fget(self).out[2]))
                   ELSE edge3D(self, Val(gridN_fget(self).out[2])),
                   LAMBDA et :
              With(IF dim(self) \in {2, 3}
                   THEN [self EXCEPT !._edge = Some(et.edge),
                                     !._tangents = Some(et.tangents)]
                   ELSE self,
                   LAMBDA new : Return(new, new._edge, {"edge"})))
    ELSE Return(self, self._edge, {})

tangents_fget(self) ==
    With(IF self._tangents = None THEN edge_fget(self) ELSE Return(self, None, {}),
         LAMBDA e :
         IF Raised(e) THEN e
         ELSE Return(e.self, e.self._tangents, e.calc))

---------------------------------------------------------------------------
(* Inputs.                                                                 *)

\* Bounds of the model.
MaxCalc == 2
MaxCells == 4
MaxH == 2
MaxRank == 3
MaxExtent == 2
MaxList == 3

PyList(items) == [type |-> "list", items |-> items]
PyTuple(items) == [type |-> "tuple", items |-> items]

\* The coordinate vector 0, h, 2h, ..., n*h of an axis with n cells.
axis(n, h) == Arr([i \in 1..(n + 1) |-> I((i - 1) * h)])

\* In-plane rotation and scaling (x, y) -> (3x - 4y, 4x + 3y) of the node
\* arrays: a regular grid that is not axis-aligned, with rational lengths.
rotated(arrs) ==
    Arr([a \in 1..Len(arrs) |->
        [arrs[a] EXCEPT !.flat =
            Arr([t \in 1..Len(arrs[a].flat) |->
                IF a = 1 THEN RSub(RMul(I(3), arrs[1].flat[t]), RMul(I(4), arrs[2].flat[t]))
                ELSE IF a = 2
                THEN RAdd(RMul(I(4), arrs[1].flat[t]), RMul(I(3), arrs[2].flat[t]))
                ELSE arrs[a].flat[t]])]])

\* Node t (1-based, column-major) moved by d: a grid that is not regular.
bumped(arrs, t, d) ==
    Arr([a \in 1..Len(arrs) |->
        [arrs[a] EXCEPT !.flat[t] = RAdd(arrs[a].flat[t], I(d[a]))]])

\* The node arrays of a grid descriptor g: g.n cells and g.h spacing per axis.
Nodes(g) ==
    LET reg == ndgrid(Arr([a \in 1..Len(g.n) |-> axis(g.n[a], g.h[a])]))
        rot == IF g.rot THEN rotated(reg) ELSE reg
    IN  PyList(IF g.bump = None THEN rot ELSE bumped(rot, g.bump[1], g.bump[2]))

Grid(n, h, rot) == [n |-> n, h |-> h, rot |-> rot, bump |-> None]

---------------------------------------------------------------------------
(* The state machine: one mesh, read through its properties.               *)

Calcs == {"gridCC", "gridFx", "gridFy", "gridFz", "gridEx", "gridEy", "gridEz",
          "vol", "area", "normals", "edge"}

\* The mesh built from the node arrays of grid g.
Built(g) ==
    /\ inp = g
    /\ mesh = __init__(Nodes(g)).self
    /\ err = None
    /\ ncalc = [c \in Calcs |-> 0]

\* Two example meshes: 2 x 2 cells in 2D and 2 x 1 x 1 cells in 3D, both
\* rotated off the axes, with spacings that differ per axis.
ExampleSeq == <<Grid(<<2, 2>>, <<1, 2>>, TRUE), Grid(<<2, 1, 1>>, <<1, 2, 1>>, TRUE)>>

Examples == {ExampleSeq[i] : i \in 1..Len(ExampleSeq)}

Init == \E g \in Examples : Built(g)

\* A read of a property that went as res.
Read(res) ==
    \E r \in {res} :
        /\ \A c \in r.calc : ncalc[c] < MaxCalc
        /\ mesh' = r.self
        /\ err' = IF Raised(r) THEN Some(r.out[2]) ELSE None
        /\ ncalc' = [c \in Calcs |-> IF c \in r.calc THEN ncalc[c] + 1 ELSE ncalc[c]]
        /\ UNCHANGED inp

ReadGridN == Read(gridN_fget(mesh))
ReadGridCC == Read(gridCC_fget(mesh))
ReadGridFx == Read(gridFx_fget(mesh))
ReadGridFy == Read(gridFy_fget(mesh))
ReadGridFz == Read(gridFz_fget(mesh))
ReadGridEx == Read(gridEx_fget(mesh))
ReadGridEy == Read(gridEy_fget(mesh))
ReadGridEz == Read(gridEz_fget(mesh))
ReadVol == Read(vol_fget(mesh))
ReadArea == Read(area_fget(mesh))
ReadNormals == Read(normals_fget(mesh))
ReadEdge == Read(edge_fget(mesh))
ReadTangents == Read(tangents_fget(mesh))

Next ==
    \/ ReadGridN
    \/ ReadGridCC
    \/ ReadGridFx
    \/ ReadGridFy
    \/ ReadGridFz
    \/ ReadGridEx
    \/ ReadGridEy
    \/ ReadGridEz
    \/ ReadVol
    \/ ReadArea
    \/ ReadNormals
    \/ ReadEdge
    \/ ReadTangents

Spec == Init /\ [][Next]_vars

---------------------------------------------------------------------------
(* The same mesh with a host that clears the stored node grid.             *)

\* mesh._gridN = None, done from outside the class.
ClearNodes ==
    /\ mesh._gridN # None
    /\ mesh' = [mesh EXCEPT !._gridN = None]
    /\ err' = None
    /\ UNCHANGED <<inp, ncalc>>

NextCleared == Next \/ ClearNodes

SpecCleared == Init /\ [][NextCleared]_vars

---------------------------------------------------------------------------
(* The constructor on arbitrary arguments.                                 *)

\* Array shapes of rank 1..MaxRank with extents 1..MaxExtent.
Shapes == UNION {[1..k -> 1..MaxExtent] : k \in 1..MaxRank}

\* An array of the given shape holding 1, 2, 3, ... in column-major order.
Counting(shape) ==
    [type |-> "ndarray", shape |-> shape, flat |-> Arr([t \in 1..Prod(shape) |-> I(t)])]

\* What a list passed as nodes may hold: arrays, or something that is none.
Elements == {Counting(sh) : sh \in Shapes} \cup {PyList(<<I(0), I(1)>>)}

\* Two arguments that are not lists.
NotLists == {PyTuple(<<Counting(<<2, 2>>), Counting(<<2, 2>>)>>), Counting(<<2, 2>>)}

\* A list of len arrays of shape sh, with entry pos (if any) replaced by e.
ListOf(sh, len, pos, e) ==
    PyList(Arr([i \in 1..len |-> IF i = pos THEN e ELSE Counting(sh)]))

\* The argument is a list of 0..MaxList arrays of one shape with up to one
\* entry replaced by an arbitrary element, or it is not a list.
InitCtor ==
    /\ \/ \E sh \in Shapes, len \in 0..MaxList, pos \in 0..MaxList, e \in Elements :
              inp = ListOf(sh, len, pos, e)
       \/ inp \in NotLists
    /\ mesh = None
    /\ err = None
    /\ ncalc = [c \in Calcs |-> 0]

\* LogicallyOrthogonalMesh(inp)
Construct ==
    /\ mesh = None /\ err = None
    /\ LET res == __init__(inp)
       IN  /\ mesh' = IF res.ok THEN res.self ELSE None
           /\ err' = IF res.ok THEN None ELSE Some(res.err)
    /\ UNCHANGED <<inp, ncalc>>

NextCtor == Construct

SpecCtor == InitCtor /\ [][NextCtor]_vars

---------------------------------------------------------------------------
(* Regular grids of every small size and spacing, read for their           *)
(* volumes, face areas and normals.                                        *)

\* Cell counts per axis, of 2D and 3D meshes of at most MaxCells cells.
CellCounts ==
    {n \in UNION {[1..k -> 1..MaxCells] : k \in {2, 3}} : Prod(n) <= MaxCells}

\* Spacings per axis, 1..MaxH each.
Spacings == UNION {[1..k -> 1..MaxH] : k \in {2, 3}}

RegularGrids ==
    {Grid(n, h, rot) : <<n, h, rot>> \in
        {x \in CellCounts \X Spacings \X BOOLEAN : Len(x[1]) = Len(x[2])}}

\* The 5 x 7 and the 5 x 7 x 1 grid of unit cells.
UnitExamples == {Grid(<<5, 7>>, <<1, 1>>, FALSE), Grid(<<5, 7, 1>>, <<1, 1, 1>>, FALSE)}

InitGeom == \E g \in RegularGrids \cup UnitExamples : Built(g)

NextGeom == ReadVol \/ ReadArea \/ ReadNormals

SpecGeom == InitGeom /\ [][NextGeom]_vars

---------------------------------------------------------------------------
(* Regular grids whose spacings differ from axis to axis, aligned with the *)
(* axes or turned off them, read for their face grids, face areas and      *)
(* normals.                                                                *)

\* The spacings 1..MaxH dealt out to the axes in turn, starting at start.
Staggering(d, start) == Arr([a \in 1..d |-> ((a + start) % MaxH) + 1])

FaceInputs ==
    {Grid(n, Staggering(Len(n), start), rot) :
        <<n, start, rot>> \in CellCounts \X (0..(MaxH - 1)) \X BOOLEAN}

InitFaces == \E g \in FaceInputs : Built(g)

NextFaces == ReadGridFx \/ ReadGridFy \/ ReadGridFz \/ ReadArea \/ ReadNormals

SpecFaces == InitFaces /\ [][NextFaces]_vars

---------------------------------------------------------------------------
(* 2D grids, regular or with one node moved, read for their staggered      *)
(* face and edge grids.                                                    *)

Bumps == {<<1, 0>>, <<0, 1>>, <<1, 1>>}

StagGrids ==
    LET n2 == {n \in CellCounts : Len(n) = 2}
    IN  {Grid(n, h, FALSE) : <<n, h>> \in n2 \X [1..2 -> 1..MaxH]}
        \cup {[Grid(n, <<1, 1>>, FALSE) EXCEPT !.bump = <<t, d>>] :
                 <<n, t, d>> \in {x \in n2 \X (1..((MaxCells + 1) * 2)) \X Bumps :
                                     x[2] <= (x[1][1] + 1) * (x[1][2] + 1)}}

InitStag == \E g \in StagGrids : Built(g)

NextStag == ReadGridFx \/ ReadGridFy \/ ReadGridEx \/ ReadGridEy

SpecStag == InitStag /\ [][NextStag]_vars

---------------------------------------------------------------------------
(* Properties of the constructor (checked under SpecCtor).                 *)

IsArray(x) == x.type = "ndarray"

\* The cases (a)..(e) in which construction is to fail: not a list; some
\* element not an array; some element's shape unlike that of nodes[0]; the
\* rank of nodes[0] unlike the number of arrays; the rank of nodes[0] is 1.
Rejected(nodes) ==
    \/ nodes.type # "list"
    \/ /\ nodes.type = "list"
       /\ \/ \E i \in 1..Len(nodes.items) : ~IsArray(nodes.items[i])
          \/ /\ nodes.items # << >>
             /\ \A i \in 1..Len(nodes.items) : IsArray(nodes.items[i])
             /\ \/ \E i \in 1..Len(nodes.items) :
                       nodes.items[i].shape # nodes.items[1].shape
                \/ Len(nodes.items[1].shape) # Len(nodes.items)
                \/ Len(nodes.items[1].shape) = 1

\* A list of dim >= 2 arrays of identical shape of rank dim.
Accepted(nodes) ==
    /\ nodes.type = "list"
    /\ Len(nodes.items) >= 2
    /\ \A i \in 1..Len(nodes.items) :
          /\ IsArray(nodes.items[i])
          /\ nodes.items[i].shape = nodes.items[1].shape
          /\ Len(nodes.items[i].shape) = Len(nodes.items)

Constructed == mesh # None \/ err # None

\* C1: once the constructor has run, it has failed and left no mesh if its
\* argument falls under one of (a)..(e), and it has succeeded if the argument
\* is a list of dim >= 2 arrays of identical rank-dim shape; the mesh then
\* holds one column of node coordinates per array.  (The empty list, which
\* has no nodes[0] for (c)..(e) to speak of, fails too.)
C1_ConstructorContract ==
    Constructed =>
        /\ Rejected(inp) => (mesh = None /\ err # None)
        /\ Accepted(inp) =>
              /\ mesh # None /\ err = None
              /\ mesh.n = Arr([a \in 1..Len(inp.items) |-> inp.items[1].shape[a] - 1])
              /\ \A i \in 1..Len(inp.items) : Col(Val(mesh._gridN), i) = inp.items[i].flat
        /\ (inp.type = "list" /\ inp.items = << >>) => (mesh = None /\ err # None)
        /\ Rejected(inp) \/ Accepted(inp) \/ (inp.type = "list" /\ inp.items = << >>)

\* Two arrays of rank 2, equal in size but not in shape, were refused.
C1_Witness ==
    /\ inp.type = "list" /\ Len(inp.items) = 2
    /\ \A i \in 1..2 : IsArray(inp.items[i]) /\ Len(inp.items[i].shape) = 2
    /\ inp.items[1].shape # inp.items[2].shape
    /\ Prod(inp.items[1].shape) = Prod(inp.items[2].shape)
    /\ mesh = None
    /\ err = Some("nodes[i] is not the same shape as nodes[0]")

---------------------------------------------------------------------------
(* Properties of the caching (checked under Spec).                         *)

\* The public properties, and what a read of each does to a mesh.
PropertySeq == <<"gridN", "gridCC", "gridFx", "gridFy", "gridFz", "gridEx", "gridEy",
                 "gridEz", "vol", "area", "normals", "edge", "tangents">>

Properties == {PropertySeq[j] : j \in 1..Len(PropertySeq)}

Get(p, self) ==
    CASE p = "gridN" -> gridN_fget(self)
      [] p = "gridCC" -> gridCC_fget(self)
      [] p = "gridFx" -> gridFx_fget(self)
      [] p = "gridFy" -> gridFy_fget(self)
      [] p = "gridFz" -> gridFz_fget(self)
      [] p = "gridEx" -> gridEx_fget(self)
      [] p = "gridEy" -> gridEy_fget(self)
      [] p = "gridEz" -> gridEz_fget(self)
      [] p = "vol" -> vol_fget(self)
      [] p = "area" -> area_fget(self)
      [] p = "normals" -> normals_fget(self)
      [] p = "edge" -> edge_fget(self)
      [] p = "tangents" -> tangents_fget(self)

\* The cache slot that holds what a read of p gives back (for normals, the
\* raw normals its value is built from).
Slot(p) ==
    CASE p = "gridN" -> "_gridN"
      [] p = "gridCC" -> "_gridCC"
      [] p = "gridFx" -> "_gridFx"
      [] p = "gridFy" -> "_gridFy"
      [] p = "gridFz" -> "_gridFz"
      [] p = "gridEx" -> "_gridEx"
      [] p = "gridEy" -> "_gridEy"
      [] p = "gridEz" -> "_gridEz"
      [] p = "vol" -> "_vol"
      [] p = "area" -> "_area"
      [] p = "normals" -> "_normals"
      [] p = "edge" -> "_edge"
      [] p = "tangents" -> "_tangents"

\* The derived quantities that are kept, each named after its computation
\* ("area" is the area+normals pair, "edge" the edge+tangents pair).
Kept == Calcs \ {"normals"}

\* gridFz and gridEz exist in 3D only.
Exists(c, self) == c \in {"gridFz", "gridEz"} => dim(self) = 3

\* C2 as stated: every computation, the pass of the normals getter among
\* them, has run at most once, and a read of a quantity whose slot is filled
\* (of normals too) computes nothing.
C2_AsStated ==
    /\ \A c \in Calcs : ncalc[c] <= 1
    /\ \A p \in Properties \ {"gridN"} : mesh[Slot(p)] # None => Get(p, mesh).calc = {}

\* C2 (amended): each kept quantity is computed at most once: its slot is
\* filled exactly when its computation has run once; a first read of it
\* computes it (gridFz and gridEz in 3D only: in 2D their reads give None and
\* compute nothing); a later read gives back the kept value, computes nothing
\* and leaves the mesh as it is.  A read of normals never repeats the
\* computation of the pair, but runs its own averaging and normalizing pass
\* on every read.
C2_ComputedAtMostOnce ==
    /\ \A c \in Kept :
          LET r == Get(c, mesh)
          IN  /\ ncalc[c] <= 1
              /\ (mesh[Slot(c)] # None) <=> (ncalc[c] = 1)
              /\ IF mesh[Slot(c)] # None THEN r = Return(mesh, mesh[Slot(c)], {})
                 ELSE IF Exists(c, mesh) THEN r.calc = {c} /\ r.self[Slot(c)] # None
                 ELSE r = Return(mesh, None, {})
    /\ mesh._tangents # None =>
          tangents_fget(mesh) = Return(mesh, mesh._tangents, {})
    /\ mesh._normals # None =>
          LET r == normals_fget(mesh)
          IN  r.self = mesh /\ r.calc = {"normals"}

\* normals has been read twice, area, vol and tangents at least once: the
\* pair was computed once, the pass of the normals getter ran twice.
C2_Witness ==
    /\ ncalc["normals"] = 2
    /\ ncalc["area"] = 1
    /\ ncalc["vol"] = 1
    /\ ncalc["edge"] = 1

\* C3: the area slot is filled exactly when the raw-normals slot is, and the
\* edge slot exactly when the tangents slot is; a first read of either member
\* of a pair fills both slots of the pair.
C3_PairsCachedJointly ==
    /\ (mesh._area = None) <=> (mesh._normals = None)
    /\ (mesh._edge = None) <=> (mesh._tangents = None)
    /\ \A p \in {"area", "normals"} :
          mesh[Slot(p)] = None =>
              LET m == Get(p, mesh).self
              IN  m._area # None /\ m._normals # None
    /\ \A p \in {"edge", "tangents"} :
          mesh[Slot(p)] = None =>
              LET m == Get(p, mesh).self
              IN  m._edge # None /\ m._tangents # None

\* Both pairs are filled, the normals pass has run, and vol is still unread.
C3_Witness ==
    /\ mesh._area # None /\ mesh._normals # None
    /\ mesh._edge # None /\ mesh._tangents # None
    /\ ncalc["normals"] >= 1
    /\ mesh._vol = None

\* What a read of each property gives back on each example mesh as the
\* constructor left it.
FirstRead ==
    Arr([i \in 1..Len(ExampleSeq) |->
        Arr([j \in 1..Len(PropertySeq) |->
            Get(PropertySeq[j], __init__(Nodes(ExampleSeq[i])).self).out])])

\* C4: in every state the reads lead to, a read of any property gives back
\* what a read of it gives back on the mesh as the constructor left it; so
\* two reads of one property, with any reads between them, return equal
\* values.
C4_ReadsIdempotent ==
    \A i \in 1..Len(ExampleSeq) :
        inp = ExampleSeq[i] =>
            \A j \in 1..Len(PropertySeq) :
                Get(PropertySeq[j], mesh).out = FirstRead[i][j]

\* Every slot is filled and normals has been read twice.
C4_Witness ==
    /\ \A c \in Kept : Exists(c, mesh) => mesh[Slot(c)] # None
    /\ ncalc["normals"] = 2

\* The slots a read of p may write.
Own(p) ==
    CASE p \in {"area", "normals"} -> {"_area", "_normals"}
      [] p \in {"edge", "tangents"} -> {"_edge", "_tangents"}
      [] p = "gridN" -> {}
      [] OTHER -> {Slot(p)}

\* C8: a read of a property leaves the cell counts, the node grid and every
\* slot but its own (and its partner's) as they were, and a slot that is
\* filled is not written again: in every state, the mesh after a read of p
\* differs from the mesh before it in at most the empty slots among p's own.
C8_ReadWritesOwnSlotOnly ==
    \A p \in Properties :
        LET after == Get(p, mesh).self
        IN  /\ \A f \in (DOMAIN mesh) \ Own(p) : after[f] = mesh[f]
            /\ \A f \in Own(p) : mesh[f] # None => after[f] = mesh[f]

\* A 2D mesh whose vol and gridCC have been read, and nothing else: the
\* area, normals and staggered-grid slots are still empty.
C8_Witness ==
    /\ dim(mesh) = 2
    /\ mesh._vol # None /\ mesh._gridCC # None
    /\ mesh._area = None /\ mesh._normals = None
    /\ mesh._gridFx = None /\ mesh._gridEx = None /\ mesh._edge = None
    /\ ncalc["vol"] = 1 /\ ncalc["gridCC"] = 1

---------------------------------------------------------------------------
(* Properties of a mesh whose node grid was cleared (checked under         *)
(* SpecCleared).                                                           *)

Deleted == "Someone deleted this. I blame you."

\* C5 as stated: with the node grid cleared, a read of gridN raises, and so
\* does the read of every derived property whose slot is empty, leaving the
\* mesh as it was.
C5_AsStated ==
    mesh._gridN = None =>
        /\ Raised(gridN_fget(mesh))
        /\ \A p \in Properties \ {"gridN"} :
              mesh[Slot(p)] = None =>
                  LET r == Get(p, mesh)
                  IN  Raised(r) /\ r.self = mesh

\* C5 (amended): with the node grid cleared, a read of gridN raises, and so
\* does the read of every derived property whose slot is empty, leaving the
\* mesh as it was; except gridFz and gridEz on a 2D mesh, whose reads never
\* touch the node grid and give back None without an error.
C5_ClearedNodesSignalled ==
    mesh._gridN = None =>
        /\ gridN_fget(mesh) = Raise(mesh, Deleted)
        /\ \A p \in Properties \ {"gridN"} :
              mesh[Slot(p)] = None =>
                  IF Exists(p, mesh)
                  THEN Get(p, mesh) = Raise(mesh, Deleted)
                  ELSE Get(p, mesh) = Return(mesh, None, {})

\* The node grid is cleared, gridCC was read before that, and the latest
\* read, of a property whose slot is still empty, has raised.
C5_Witness ==
    /\ mesh._gridN = None
    /\ err = Some(Deleted)
    /\ mesh._gridCC # None
    /\ mesh._vol = None /\ mesh._area = None /\ mesh._gridFx = None

---------------------------------------------------------------------------
(* Properties of the geometry of regular grids (checked under SpecGeom,    *)
(* the order of the faces under SpecFaces).                                *)

AxisAligned == ~inp.rot /\ inp.bump = None

UnitSpacing == \A a \in 1..Len(inp.h) : inp.h[a] = 1

\* C6: on an axis-aligned regular grid of unit spacing, in 2D and in 3D,
\* vol holds a 1 for every cell, and its sum is the number of cells.
C6_UnitGridVolumes ==
    (AxisAligned /\ UnitSpacing /\ mesh._vol # None) =>
        /\ Val(mesh._vol) = Arr([t \in 1..Prod(inp.n) |-> I(1)])
        /\ RSum(Val(mesh._vol)) = I(Prod(inp.n))

\* vol has been read on the 5 x 7 x 1 grid of unit cells and sums to 35.
C6_Witness ==
    /\ AxisAligned /\ UnitSpacing
    /\ inp.n = <<5, 7, 1>>
    /\ mesh._vol # None /\ ncalc["vol"] = 1
    /\ RSum(Val(mesh._vol)) = I(5 * 7 * 1)

\* The number of faces normal to axis a, and the axis that face k of the
\* canonical order (x faces, y faces, z faces) is normal to.
nF(self, a) == Prod([self.n EXCEPT ![a] = @ + 1])

nFaces(self) == IF dim(self) = 2 THEN nF(self, 1) + nF(self, 2)
                ELSE nF(self, 1) + nF(self, 2) + nF(self, 3)

FaceAxis(self, k) ==
    IF k <= nF(self, 1) THEN 1
    ELSE IF k <= nF(self, 1) + nF(self, 2) THEN 2 ELSE 3

\* s times the a-th canonical basis vector of dimension d.
Basis(d, a, s) == Arr([c \in 1..d |-> IF c = a THEN I(s) ELSE I(0)])

\* C7: on an axis-aligned regular grid (2D and 3D, any spacings), every row
\* of normals is a canonical basis vector up to sign, and every entry of
\* area is the product of the spacings along the axes other than the one the
\* face is normal to.
C7_AxisAlignedFaces ==
    (AxisAligned /\ mesh._area # None) =>
        LET d == dim(mesh)
            normals == Val(normals_fget(mesh).out[2])
            area == Val(mesh._area)
        IN  /\ Len(normals) = nFaces(mesh)
            /\ Len(area) = nFaces(mesh)
            /\ \A k \in 1..nFaces(mesh) :
                  /\ \E a \in 1..d, sgn \in {-1, 1} : normals[k] = Basis(d, a, sgn)
                  /\ area[k] = I(Prod([inp.h EXCEPT ![FaceAxis(mesh, k)] = 1]))

\* area and normals have been read on a 3D axis-aligned grid whose spacings
\* differ and are not 1 along two axes.
C7_Witness ==
    /\ AxisAligned /\ Len(inp.n) = 3
    /\ inp.h[1] # inp.h[2] /\ inp.h[2] > 1 /\ inp.h[3] > 1
    /\ mesh._area # None /\ ncalc["normals"] >= 1

\* The corner nodes (0-based indices into gridN) of every face, in the
\* canonical order: in 2D the segments AB and AD, in 3D the quadrilaterals
\* AEFB, ADHE and ABCD, each listed around the face.
FaceCorners(self) ==
    LET fam(letters, lattice) ==
            LET ix == indexCube(letters, nNv(self), lattice)
            IN  Arr([t \in 1..Prod(lattice) |-> Arr([l \in 1..Len(letters) |-> ix[l][t]])])
    IN  IF dim(self) = 2
        THEN fam(<<"A", "B">>, <<nNx(self), nCy(self)>>)
             \o fam(<<"A", "D">>, <<nCx(self), nNy(self)>>)
        ELSE fam(<<"A", "E", "F", "B">>, <<nNx(self), nCy(self), nCz(self)>>)
             \o fam(<<"A", "D", "H", "E">>, <<nCx(self), nNy(self), nCz(self)>>)
             \o fam(<<"A", "B", "C", "D">>, <<nCx(self), nCy(self), nNz(self)>>)

Dot(u, v) == RSum(Arr([c \in 1..Len(u) |-> RMul(u[c], v[c])]))

Diff(u, v) == Arr([c \in 1..Len(u) |-> RSub(u[c], v[c])])

\* The mean of the listed rows of x.
Mean(x, idx) ==
    Arr([c \in 1..Len(x[1]) |->
        RDiv(RSum(Arr([l \in 1..Len(idx) |-> x[idx[l] + 1][c]])), I(Len(idx)))])

\* gridFx, then gridFy, then (3D) gridFz, as read and kept.
FaceGrid(self) ==
    Val(self._gridFx) \o Val(self._gridFy)
        \o (IF dim(self) = 3 THEN Val(self._gridFz) ELSE << >>)

FacesRead(self) ==
    /\ self._area # None
    /\ self._gridFx # None /\ self._gridFy # None
    /\ dim(self) = 3 => self._gridFz # None

\* C10: on every regular grid, aligned with the axes or not, once the face
\* grids and area have been read: area and normals have nFx + nFy (+ nFz)
\* entries, and for every k the k-th row of gridFx, gridFy, gridFz put end to
\* end is the mean of the corners of one face, area[k] is the size of that
\* face (the length of the segment; for the parallelogram, the magnitude of
\* the cross product of its two sides at A) and normals[k] is a unit vector
\* at right angles to the sides of that face.
C10_CanonicalFaceOrder ==
    FacesRead(mesh) =>
        LET x == Val(mesh._gridN)
            corners == FaceCorners(mesh)
            faces == FaceGrid(mesh)
            normals == Val(normals_fget(mesh).out[2])
            area == Val(mesh._area)
        IN  /\ Len(area) = nFaces(mesh)
            /\ Len(normals) = nFaces(mesh)
            /\ Len(faces) = nFaces(mesh)
            /\ Len(corners) = nFaces(mesh)
            /\ \A k \in 1..nFaces(mesh) :
                  LET c == corners[k]
                      side1 == Diff(x[c[2] + 1], x[c[1] + 1])
                      side2 == Diff(x[c[Len(c)] + 1], x[c[1] + 1])
                  IN  /\ faces[k] = Mean(x, c)
                      /\ Dot(normals[k], normals[k]) = I(1)
                      /\ Dot(normals[k], side1) = I(0)
                      /\ Dot(normals[k], side2) = I(0)
                      /\ IF dim(mesh) = 2
                         THEN RMul(area[k], area[k]) = Dot(side1, side1)
                         ELSE RMul(area[k], area[k])
                                = Dot(cross(<<side1>>, <<side2>>)[1],
                                      cross(<<side1>>, <<side2>>)[1])

\* The face grids, area and normals have been read on a 3D grid turned off
\* the axes, with more cells along the first axis than along the second.
C10_Witness ==
    /\ inp.rot /\ Len(inp.n) = 3
    /\ inp.n[1] > inp.n[2]
    /\ FacesRead(mesh) /\ ncalc["normals"] >= 1

---------------------------------------------------------------------------
(* Properties of the staggered grids in 2D (checked under SpecStag).       *)

\* The midpoints of the node pairs (i, j), (i + di, j + dj) of a 2D mesh,
\* i running fastest, over the nodes (i, j) that have such a partner.
Midpoints(self, di, dj) ==
    LET x == Val(self._gridN)
        ni == nNx(self) - di
        nj == nNy(self) - dj
    IN  Arr([t \in 1..(ni * nj) |->
            LET i == (t - 1) % ni
                j == (t - 1) \div ni
                a == x[i + nNx(self) * j + 1]
                b == x[(i + di) + nNx(self) * (j + dj) + 1]
            IN  Arr([c \in 1..2 |-> RDiv(RAdd(a[c], b[c]), I(2))])])

\* C9: on every 2D mesh, gridEx equals gridFy entry for entry, both being
\* the midpoints of the node pairs adjacent along the first logical axis,
\* and gridEy equals gridFx entry for entry, both being the midpoints of the
\* node pairs adjacent along the second logical axis.
C9_EdgeFaceDuality ==
    /\ (mesh._gridEx # None /\ mesh._gridFy # None) => mesh._gridEx = mesh._gridFy
    /\ (mesh._gridEy # None /\ mesh._gridFx # None) => mesh._gridEy = mesh._gridFx
    /\ mesh._gridEx # None => Val(mesh._gridEx) = Midpoints(mesh, 1, 0)
    /\ mesh._gridFy # None => Val(mesh._gridFy) = Midpoints(mesh, 1, 0)
    /\ mesh._gridEy # None => Val(mesh._gridEy) = Midpoints(mesh, 0, 1)
    /\ mesh._gridFx # None => Val(mesh._gridFx) = Midpoints(mesh, 0, 1)

\* All four grids have been read on a 2D mesh that has more cells along the
\* first axis than along the second and one node moved off the lattice.
C9_Witness ==
    /\ dim(mesh) = 2 /\ inp.bump # None /\ inp.n[1] > inp.n[2]
    /\ mesh._gridEx # None /\ mesh._gridFy # None
    /\ mesh._gridEy # None /\ mesh._gridFx # None

====
